---- MODULE Spec2Model ----
(***************************************************************************)
(* Model of package.py, the release-packaging script of                    *)
(* strafe-jump-trainer: argument validation, exclusive creation of the     *)
(* version-named zip archive and the seven z.write calls.                  *)
(*                                                                         *)
(* Strings are sequences of one-character strings; a path is a sequence of *)
(* tokens in which "/" is the separator.  The filesystem maps the paths    *)
(* that exist to files.                                                    *)
(***************************************************************************)
EXTENDS Integers, Sequences, FiniteSets, TLC

VARIABLES
    argv,        \* sys.argv: <<script name, arguments...>>
    environ,     \* os.environ: the environment variables that are set
    fs,          \* filesystem: path -> file, for every path that exists
    fs0,         \* history: the filesystem at process start
    pc,          \* position of the script
    DST_PATH,    \* module global DST_PATH (None before line 8)
    z,           \* the ZipFile object: [open, n] (n = manifest entries written)
    srcHandles,  \* source paths with an open file handle
    attempts,    \* history: filenames passed to z.write so far
    exc,         \* pending unhandled exception (None if none)
    stdout,      \* lines printed to standard output
    exitStatus   \* process exit status (None while running)

vars == <<argv, environ, fs, fs0, pc, DST_PATH, z, srcHandles, attempts,
          exc, stdout, exitStatus>>

\* Python's None, and "no value yet", for the sequence-valued variables.
None == <<>>

\* ---------------------------------------------------------------- bounds
MaxArgLen == 5

\* ------------------------------------------------------------- constants
\* \d, for the characters that occur in the arguments explored
Digits == {"0", "1", "2", "3", "4", "5", "6", "7", "8", "9"}
\* characters of the enumerated arguments: a digit, the dot, a letter
Alphabet == {"1", ".", "v"}
Usage == "usage: package.py <version_number>"
EnvVar == "TAG"

\* ----------------------------------------------------- strings and paths
RECURSIVE Strings(_)
Strings(n) ==
    IF n = 0 THEN {<<>>}
    ELSE LET S == Strings(n - 1)
         IN  S \cup {Append(s, c) : s \in {t \in S : Len(t) = n - 1}, c \in Alphabet}

AllDigits(s, lo, hi) == lo <= hi /\ \A k \in lo..hi : s[k] \in Digits

\* The pattern r'\d+\.\d+\.\d+' matches the first n characters of s: three
\* non-empty digit runs separated by two dots.
MatchesUpTo(s, n) ==
    \E i, j \in 1..n :
        /\ i < j
        /\ s[i] = "."
        /\ s[j] = "."
        /\ AllDigits(s, 1, i - 1)
        /\ AllDigits(s, i + 1, j - 1)
        /\ AllDigits(s, j + 1, n)

\* Variant: re.match in place of re.fullmatch (a prefix may match).
FullMatchPrefix(s) == \E n \in 0..Len(s) : MatchesUpTo(s, n)

\* re.fullmatch(pattern, s): the pattern matches the whole string.
FullMatch(s) == MatchesUpTo(s, Len(s))

\* Variant: the dash before the version left out of the template.
FormatNoDash(v) == <<"strafe-jump-trainer">> \o v \o <<".zip">>

\* 'strafe-jump-trainer-{}.zip'.format(v)
Format(v) == <<"strafe-jump-trainer-">> \o v \o <<".zip">>

\* os.path.normpath as ZipInfo.from_file and the OS apply it to the
\* manifest's paths: leading "./" components are dropped.
RECURSIVE NormPath(_)
NormPath(p) ==
    IF Len(p) >= 2 /\ p[1] = "." /\ p[2] = "/"
    THEN NormPath(SubSeq(p, 3, Len(p)))
    ELSE p

\* ------------------------------------------------------------ filesystem
\* A file: readable or not, raw bytes (data), and, for a zip archive, the
\* local entries written so far and the central directory (written on close).
DataFile(readable, bytes) ==
    [readable |-> readable, data |-> bytes, entries |-> <<>>,
     directory |-> <<>>, finalized |-> FALSE]

\* What open(DST_PATH, 'x+b') leaves on disk: a new empty file.
EmptyArchive == DataFile(TRUE, <<>>)

\* Variant: a compressor that keeps at most the first byte of its input.
DeflateTruncating(bytes) ==
    <<1, Len(bytes), 255 - Len(bytes)>> \o (IF Len(bytes) > 1 THEN <<bytes[1]>> ELSE bytes)

\* ZIP_DEFLATED entry payload.  The stream is modelled by deflate's stored
\* block: final-block marker, LEN, one's complement of LEN, then the bytes.
Deflate(bytes) == <<1, Len(bytes), 255 - Len(bytes)>> \o bytes

\* Reading an entry back (zipfile's decompressor): checks the block header
\* and returns the payload, or <<-1>> for a corrupt stream.
Inflate(stream) ==
    IF /\ Len(stream) >= 3
       /\ stream[1] = 1
       /\ stream[2] + stream[3] = 255
       /\ Len(stream) = 3 + stream[2]
    THEN SubSeq(stream, 4, Len(stream))
    ELSE <<-1>>

\* -------------------------------------------------------------- manifest
\* Variant: index.html written first.
ManifestReordered ==
    << [filename |-> <<".", "/", "static", "/", "index.html">>,
        arcname |-> <<".", "/", "index.html">>],
       [filename |-> <<".", "/", "LICENSE">>, arcname |-> <<>>],
       [filename |-> <<".", "/", "README.md">>, arcname |-> <<>>],
       [filename |-> <<".", "/", "pkg", "/", "strafe_tutorial_bg.d.ts">>, arcname |-> <<>>],
       [filename |-> <<".", "/", "pkg", "/", "strafe_tutorial_bg.wasm">>, arcname |-> <<>>],
       [filename |-> <<".", "/", "pkg", "/", "strafe_tutorial.d.ts">>, arcname |-> <<>>],
       [filename |-> <<".", "/", "pkg", "/", "strafe_tutorial.js">>, arcname |-> <<>>] >>

\* The seven z.write calls, in program order; arcname is None when the call
\* passes no arcname.
Manifest ==
    << [filename |-> <<".", "/", "LICENSE">>, arcname |-> None],
       [filename |-> <<".", "/", "README.md">>, arcname |-> None],
       [filename |-> <<".", "/", "pkg", "/", "strafe_tutorial_bg.d.ts">>, arcname |-> None],
       [filename |-> <<".", "/", "pkg", "/", "strafe_tutorial_bg.wasm">>, arcname |-> None],
       [filename |-> <<".", "/", "pkg", "/", "strafe_tutorial.d.ts">>, arcname |-> None],
       [filename |-> <<".", "/", "pkg", "/", "strafe_tutorial.js">>, arcname |-> None],
       [filename |-> <<".", "/", "static", "/", "index.html">>,
        arcname |-> <<".", "/", "index.html">>] >>

\* Variant: the arcname argument ignored.
ArcNameIgnored(m) == NormPath(m.filename)

\* The entry name z.write gives a manifest line: arcname if passed, else the
\* filename, normalised.
ArcName(m) == NormPath(IF m.arcname = None THEN m.filename ELSE m.arcname)

\* The file a manifest line reads, as the OS resolves it from the cwd.
SourcePath(m) == NormPath(m.filename)

\* Variant: the version taken from the environment variable when it is set.
VersionFromEnv == IF EnvVar \in DOMAIN environ THEN environ[EnvVar] ELSE argv[2]

\* sys.argv[1] (argv is 1-based here, so index 2)
Version == argv[2]

\* ------------------------------------------------------------------ Init
Script == <<"package.py">>
V111 == <<"1", ".", "1", ".", "1">>
Examples ==
    { <<"1", ".", "2">>, <<"v", "1", ".", "2", ".", "3">>, <<>>,
      <<"1", ".", "2", ".", "3", ".", "4">>, <<"1", ".", "0", ".", "0">>,
      <<"1", ".", "0">>, V111 }

Bystander == <<"notes.txt">>
OldTarget == DataFile(TRUE, <<7, 7>>)

\* Contents of the seven sources: all different, all equal, or empty files
\* with a two-byte index.html.
Profiles ==
    { [k \in 1..Len(Manifest) |-> <<k>>],
      [k \in 1..Len(Manifest) |-> <<0>>],
      [k \in 1..Len(Manifest) |-> IF k = Len(Manifest) THEN <<1, 0>> ELSE <<>>] }

\* The state of source k under a content profile: missing, present but
\* unreadable, or readable.
FileState(status, bytes) ==
    IF status = "missing" THEN None
    ELSE DataFile(status = "ok", bytes)

\* Build a filesystem from a choice of state per manifest line (None =
\* the file does not exist), an optional pre-existing file at the target of
\* version 1.1.1, and an unrelated file.
MkFs(choice, preexisting) ==
    LET present == {k \in 1..Len(Manifest) : choice[k] # None}
        srcs == {SourcePath(Manifest[k]) : k \in present}
        idx(p) == CHOOSE k \in present : SourcePath(Manifest[k]) = p
        extra == {Bystander} \cup (IF preexisting THEN {Format(V111)} ELSE {})
    IN  [p \in srcs \cup extra |->
            IF p \in srcs THEN choice[idx(p)]
            ELSE IF p = Bystander THEN DataFile(TRUE, <<3>>)
            ELSE OldTarget]

InitRest ==
    /\ fs0 = fs
    /\ pc = "validate"
    /\ DST_PATH = None
    /\ z = [open |-> FALSE, n |-> 0]
    /\ srcHandles = {}
    /\ attempts = <<>>
    /\ exc = None
    /\ stdout = <<>>
    /\ exitStatus = None

\* Filesystem-side exploration: every combination of missing / unreadable /
\* readable sources, with and without a pre-existing target.
Init ==
    /\ argv \in {<<Script, V111>>, <<Script, <<"1", ".", "2">>>>}
    /\ environ = << >>
    /\ \E status \in [1..Len(Manifest) -> {"missing", "denied", "ok"}],
          prof \in Profiles, pre \in BOOLEAN :
           fs = MkFs([k \in 1..Len(Manifest) |-> FileState(status[k], prof[k])], pre)
    /\ InitRest

Distinct == [k \in 1..Len(Manifest) |-> DataFile(TRUE, <<k>>)]

\* Argument-side exploration: every argument string up to MaxArgLen and the
\* documented examples, zero to two arguments, the environment variable
\* unset or set, over a few filesystems.
InitArgs ==
    /\ \E a \in Strings(MaxArgLen) \cup Examples :
           argv \in {<<Script>>, <<Script, a>>, <<Script, a, <<"x">>>>}
    /\ environ \in {<< >>, [n \in {EnvVar} |-> V111],
                    [n \in {EnvVar} |-> <<"v", "2">>]}
    /\ fs \in { MkFs(Distinct, FALSE), MkFs(Distinct, TRUE),
                MkFs([Distinct EXCEPT ![2] = None], FALSE),
                MkFs([Distinct EXCEPT ![7] = DataFile(FALSE, <<7>>)], FALSE) }
    /\ InitRest

\* --------------------------------------------------------------- actions
\* Lines 4-6: argument check; usage message and sys.exit(1) on failure.
Validate ==
    /\ pc = "validate"
    /\ IF Len(argv) # 2 \/ ~FullMatch(argv[2])
       THEN /\ stdout' = Append(stdout, Usage)
            /\ exitStatus' = <<1>>
            /\ pc' = "done"
       ELSE /\ pc' = "open"
            /\ UNCHANGED <<stdout, exitStatus>>
    /\ UNCHANGED <<argv, environ, fs, fs0, DST_PATH, z, srcHandles, attempts, exc>>

\* Variant: mode='w', which truncates a file that exists.
OpenArchiveW ==
    /\ pc = "open"
    /\ DST_PATH' = Format(Version)
    /\ fs' = IF DST_PATH' \in DOMAIN fs
             THEN [fs EXCEPT ![DST_PATH'] = EmptyArchive]
             ELSE fs @@ (DST_PATH' :> EmptyArchive)
    /\ z' = [open |-> TRUE, n |-> 0]
    /\ pc' = "write"
    /\ UNCHANGED <<argv, environ, fs0, srcHandles, attempts, exc, stdout, exitStatus>>

\* Variant: mode='a', which appends the archive to a file that exists.
OpenArchiveA ==
    /\ pc = "open"
    /\ DST_PATH' = Format(Version)
    /\ fs' = IF DST_PATH' \in DOMAIN fs
             THEN fs
             ELSE fs @@ (DST_PATH' :> EmptyArchive)
    /\ z' = [open |-> TRUE, n |-> 0]
    /\ pc' = "write"
    /\ UNCHANGED <<argv, environ, fs0, srcHandles, attempts, exc, stdout, exitStatus>>

\* Lines 8-9: DST_PATH and ZipFile(DST_PATH, mode='x'): exclusive creation.
\* FileExistsError is raised by the constructor, so the with body and
\* __exit__ never run and the traceback ends the process with status 1.
OpenArchive ==
    /\ pc = "open"
    /\ DST_PATH' = Format(Version)
    /\ IF DST_PATH' \in DOMAIN fs
       THEN /\ exc' = <<"FileExistsError">>
            /\ exitStatus' = <<1>>
            /\ pc' = "done"
            /\ UNCHANGED <<fs, z>>
       ELSE /\ fs' = fs @@ (DST_PATH' :> EmptyArchive)
            /\ z' = [open |-> TRUE, n |-> 0]
            /\ pc' = "write"
            /\ UNCHANGED <<exc, exitStatus>>
    /\ UNCHANGED <<argv, environ, fs0, srcHandles, attempts, stdout>>

\* Variant: the archive used without a with block, so an error in z.write
\* ends the process with the archive still open and never closed.
WriteOpenNoRelease ==
    /\ pc = "write"
    /\ LET m == Manifest[z.n + 1]
           p == SourcePath(m)
       IN  /\ attempts' = Append(attempts, m.filename)
           /\ IF p \notin DOMAIN fs \/ ~fs[p].readable
              THEN /\ exc' = IF p \notin DOMAIN fs THEN <<"FileNotFoundError">>
                                                   ELSE <<"PermissionError">>
                   /\ exitStatus' = <<1>>
                   /\ pc' = "done"
                   /\ UNCHANGED srcHandles
              ELSE /\ srcHandles' = srcHandles \cup {p}
                   /\ pc' = "copy"
                   /\ UNCHANGED <<exc, exitStatus>>
    /\ UNCHANGED <<argv, environ, fs, fs0, DST_PATH, z, stdout>>

\* Lines 10-16, first half of z.write: stat the source (ZipInfo.from_file)
\* and open it for reading.  An error leaves the with block.
WriteOpen ==
    /\ pc = "write"
    /\ LET m == Manifest[z.n + 1]
           p == SourcePath(m)
       IN  /\ attempts' = Append(attempts, m.filename)
           /\ IF p \notin DOMAIN fs
              THEN /\ exc' = <<"FileNotFoundError">>
                   /\ pc' = "exit"
                   /\ UNCHANGED srcHandles
              ELSE IF ~fs[p].readable
              THEN /\ exc' = <<"PermissionError">>
                   /\ pc' = "exit"
                   /\ UNCHANGED srcHandles
              ELSE /\ srcHandles' = srcHandles \cup {p}
                   /\ pc' = "copy"
                   /\ UNCHANGED exc
    /\ UNCHANGED <<argv, environ, fs, fs0, DST_PATH, z, stdout, exitStatus>>

\* Lines 10-16, second half of z.write: the source is copied, deflated, into
\* a new entry of the archive and the source handle is closed.
WriteCopy ==
    /\ pc = "copy"
    /\ LET m == Manifest[z.n + 1]
           p == SourcePath(m)
           e == [name |-> ArcName(m), stored |-> Deflate(fs[p].data)]
       IN  /\ fs' = [fs EXCEPT ![DST_PATH].entries = Append(@, e)]
           /\ srcHandles' = srcHandles \ {p}
           /\ z' = [z EXCEPT !.n = @ + 1]
           /\ pc' = IF z.n + 1 = Len(Manifest) THEN "exit" ELSE "write"
    /\ UNCHANGED <<argv, environ, fs0, DST_PATH, attempts, exc, stdout, exitStatus>>

\* Variant: an error handler that deletes the incomplete archive.
ExitWithRollback ==
    /\ pc = "exit"
    /\ fs' = IF exc = None
             THEN [fs EXCEPT ![DST_PATH].directory =
                                 [k \in 1..Len(fs[DST_PATH].entries) |->
                                     fs[DST_PATH].entries[k].name],
                             ![DST_PATH].finalized = TRUE]
             ELSE [p \in DOMAIN fs \ {DST_PATH} |-> fs[p]]
    /\ z' = [z EXCEPT !.open = FALSE]
    /\ exitStatus' = IF exc = None THEN <<0>> ELSE <<1>>
    /\ pc' = "done"
    /\ UNCHANGED <<argv, environ, fs0, DST_PATH, srcHandles, attempts, exc, stdout>>

\* Line 9, leaving the with block (normally or by exception):
\* ZipFile.__exit__ closes the archive, which writes the central directory
\* of the entries present.  Then the script ends: status 0, or 1 with the
\* traceback of the pending exception.
ExitWith ==
    /\ pc = "exit"
    /\ fs' = [fs EXCEPT ![DST_PATH].directory =
                            [k \in 1..Len(fs[DST_PATH].entries) |->
                                fs[DST_PATH].entries[k].name],
                        ![DST_PATH].finalized = TRUE]
    /\ z' = [z EXCEPT !.open = FALSE]
    /\ exitStatus' = IF exc = None THEN <<0>> ELSE <<1>>
    /\ pc' = "done"
    /\ UNCHANGED <<argv, environ, fs0, DST_PATH, srcHandles, attempts, exc, stdout>>

Next == Validate \/ OpenArchive \/ WriteOpen \/ WriteCopy \/ ExitWith

Spec == Init /\ [][Next]_vars
SpecArgs == InitArgs /\ [][Next]_vars

\* ------------------------------------------------------------ properties
\* The pattern \d+\.\d+\.\d+ stated on the string itself: exactly two dots,
\* every other character a decimal digit, no dot first, last or doubled.
IsDottedTriple(s) ==
    /\ Len(s) >= 1
    /\ Cardinality({k \in 1..Len(s) : s[k] = "."}) = 2
    /\ \A k \in 1..Len(s) :
           s[k] \in {".", "0", "1", "2", "3", "4", "5", "6", "7", "8", "9"}
    /\ s[1] # "." /\ s[Len(s)] # "."
    /\ \A k \in 1..(Len(s) - 1) : ~(s[k] = "." /\ s[k + 1] = ".")

\* The command line is exactly one well-formed version argument.
GoodCommandLine == Len(argv) = 2 /\ IsDottedTriple(argv[2])

\* strafe-jump-trainer-<version>.zip for the argument given.
TargetName == <<"strafe-jump-trainer-">> \o argv[2] \o <<".zip">>

\* The source files as the documentation lists them, in manifest order.
SourceFiles ==
    << <<"LICENSE">>, <<"README.md">>,
       <<"pkg", "/", "strafe_tutorial_bg.d.ts">>,
       <<"pkg", "/", "strafe_tutorial_bg.wasm">>,
       <<"pkg", "/", "strafe_tutorial.d.ts">>,
       <<"pkg", "/", "strafe_tutorial.js">>,
       <<"static", "/", "index.html">> >>

\* The entry names, in manifest order.
EntryOrder == [SourceFiles EXCEPT ![7] = <<"index.html">>]

Usable(k) == SourceFiles[k] \in DOMAIN fs0 /\ fs0[SourceFiles[k]].readable
AllUsable == \A k \in 1..7 : Usable(k)
\* Index of the first missing or unreadable source (8 if there is none).
FirstBad == CHOOSE k \in 1..8 : (k = 8 \/ ~Usable(k)) /\ \A j \in 1..(k - 1) : Usable(j)

Created == DOMAIN fs \ DOMAIN fs0
Finished == pc = "done"
Names(file) == [k \in 1..Len(file.entries) |-> file.entries[k].name]

\* C1: whenever the command line is not exactly one argument fully matching
\* \d+\.\d+\.\d+, nothing on disk is ever created or modified and no archive
\* is opened, and the run ends with the usage message printed and status 1.
C1_UsageError ==
    ~GoodCommandLine =>
        /\ fs = fs0
        /\ ~z.open
        /\ DST_PATH = None
        /\ pc \in {"validate", "done"}
        /\ Finished => stdout = <<Usage>> /\ exitStatus = <<1>>

C1_Witness ==
    /\ Finished
    /\ argv = <<Script, <<"1", ".", "2", ".", "3", ".", "4">>>>
    /\ stdout = <<Usage>>
    /\ exitStatus = <<1>>

\* C2 as stated: for every well-formed version the run exits 0 and leaves a
\* file named strafe-jump-trainer-<version>.zip.
C2_Original ==
    (Finished /\ GoodCommandLine) =>
        exitStatus = <<0>> /\ TargetName \in DOMAIN fs

\* C2 amended: for every well-formed version, when no file exists at the
\* target name beforehand and all seven sources are readable, the run exits
\* 0 and the one file it has created is named exactly
\* strafe-jump-trainer-<version>.zip.
C2_Amended ==
    (Finished /\ GoodCommandLine /\ TargetName \notin DOMAIN fs0 /\ AllUsable) =>
        /\ exitStatus = <<0>>
        /\ Created = {TargetName}
        /\ DST_PATH = TargetName

C2_Witness ==
    /\ Finished
    /\ argv = <<Script, <<"1", ".", "0", ".", "0">>>>
    /\ exitStatus = <<0>>
    /\ <<"strafe-jump-trainer-", "1", ".", "0", ".", "0", ".zip">> \in Created

\* C3: with seven readable sources and no pre-existing target, the finished
\* archive has exactly seven entries, no duplicates, named by the source
\* paths except that static/index.html is index.html; nothing under static/.
C3_EntryNames ==
    (Finished /\ GoodCommandLine /\ TargetName \notin DOMAIN fs0 /\ AllUsable) =>
        /\ TargetName \in DOMAIN fs
        /\ LET names == Names(fs[TargetName])
           IN  /\ Len(names) = 7
               /\ {names[k] : k \in 1..Len(names)} = {EntryOrder[k] : k \in 1..7}
               /\ Cardinality({names[k] : k \in 1..Len(names)}) = 7
               /\ \A k \in 1..Len(names) : names[k][1] # "static"
               /\ <<"index.html">> \in {names[k] : k \in 1..Len(names)}
               /\ fs[TargetName].directory = names

C3_Witness ==
    /\ Finished
    /\ exitStatus = <<0>>
    /\ DST_PATH \in DOMAIN fs
    /\ Len(fs[DST_PATH].directory) = 7
    /\ fs[DST_PATH].directory[7] = <<"index.html">>

\* C4: if a file already exists at the target name, the run fails, no
\* manifest entry is written, no source is read, and the pre-existing file
\* is unchanged.
C4_TargetExists ==
    (GoodCommandLine /\ TargetName \in DOMAIN fs0) =>
        /\ exitStatus # <<0>>
        /\ attempts = <<>>
        /\ srcHandles = {}
        /\ z.n = 0
        /\ TargetName \in DOMAIN fs
        /\ fs[TargetName] = fs0[TargetName]
        /\ Finished => exitStatus = <<1>> /\ exc = <<"FileExistsError">>

C4_Witness ==
    /\ Finished
    /\ exc = <<"FileExistsError">>
    /\ DST_PATH \in DOMAIN fs0
    /\ fs[DST_PATH] = OldTarget

\* C5: if a source is missing or unreadable (and the archive could be
\* created), the run never exits 0, no manifest line after the failing one
\* is attempted, and at termination the archive is on disk holding every
\* entry written before the failing one.
C5_SourceFailure ==
    (GoodCommandLine /\ TargetName \notin DOMAIN fs0 /\ ~AllUsable) =>
        /\ exitStatus # <<0>>
        /\ Len(attempts) <= FirstBad
        /\ Finished =>
              /\ exitStatus = <<1>>
              /\ Len(attempts) = FirstBad
              /\ TargetName \in DOMAIN fs
              /\ Len(fs[TargetName].entries) = FirstBad - 1
              /\ \A k \in 1..(FirstBad - 1) :
                     fs[TargetName].entries[k].name = EntryOrder[k]

C5_Witness ==
    /\ Finished
    /\ exc = <<"FileNotFoundError">>
    /\ DST_PATH \in DOMAIN fs
    /\ Len(fs[DST_PATH].entries) = 3
    /\ Len(attempts) = 4

\* The source an entry name stands for.
SourceOf(name) ==
    IF name = <<"index.html">> THEN <<"static", "/", "index.html">> ELSE name

\* C6: after a successful run, every entry decompresses to exactly the
\* content of its source file; index.html holds static/index.html.
C6_RoundTrip ==
    (Finished /\ exitStatus = <<0>>) =>
        \A k \in 1..Len(fs[DST_PATH].entries) :
            LET e == fs[DST_PATH].entries[k]
            IN  /\ SourceOf(e.name) \in DOMAIN fs0
                /\ Inflate(e.stored) = fs0[SourceOf(e.name)].data

C6_Witness ==
    /\ Finished
    /\ exitStatus = <<0>>
    /\ fs[DST_PATH].entries[7].name = <<"index.html">>
    /\ Inflate(fs[DST_PATH].entries[7].stored) = <<1, 0>>
    /\ fs0[<<"static", "/", "index.html">>].data = <<1, 0>>
    /\ Inflate(fs[DST_PATH].entries[1].stored) = <<>>

\* C7: in every run every pre-existing file is unchanged, at most one file
\* is created, and it is the output archive; a successful run creates
\* exactly one.
C7_Frame ==
    /\ \A p \in DOMAIN fs0 : p \in DOMAIN fs /\ fs[p] = fs0[p]
    /\ Cardinality(Created) <= 1
    /\ Created # {} => GoodCommandLine /\ Created = {TargetName}
    /\ exitStatus = <<0>> => Cardinality(Created) = 1

C7_Witness ==
    /\ Finished
    /\ exitStatus = <<0>>
    /\ Cardinality(Created) = 1
    /\ fs[Bystander] = fs0[Bystander]
    /\ fs[<<"LICENSE">>] = fs0[<<"LICENSE">>]

C9_Release ==
    /\ exitStatus = <<0>> =>
           /\ z.n = 7
           /\ Len(attempts) = 7
           /\ DST_PATH \in DOMAIN fs
           /\ fs[DST_PATH].finalized
           /\ Len(fs[DST_PATH].directory) = 7
           /\ ~z.open
    /\ Finished => ~z.open /\ srcHandles = {}
    /\ (Finished /\ Created # {}) => fs[DST_PATH].finalized

C9_Witness ==
    /\ Finished
    /\ exc = <<"PermissionError">>
    /\ Created # {}
    /\ z.n = 2
    /\ ~z.open

\* C10: in every state the archive's entries are a prefix of the manifest
\* order, so index.html is there only with the six others, and the archive
\* of a failed run holds exactly the entries before the first unusable
\* source.
C10_Prefix ==
    \A p \in Created :
        LET names == Names(fs[p])
        IN  /\ Len(names) <= 7
            /\ names = SubSeq(EntryOrder, 1, Len(names))
            /\ (\E k \in 1..Len(names) : names[k] = <<"index.html">>) => Len(names) = 7
            /\ (Finished /\ exitStatus # <<0>>) => Len(names) = FirstBad - 1

C10_Witness ==
    /\ pc = "exit"
    /\ exc # None
    /\ Len(fs[DST_PATH].entries) = 6
    /\ fs[DST_PATH].entries[6].name = <<"pkg", "/", "strafe_tutorial.js">>

====
